---------------------------- MODULE Spec2Model ----------------------------
(***************************************************************************)
(* Olist financial dashboard: the batch ETL script (data_pipeline.py) and  *)
(* the loader of the interactive dashboard (streamlit_app.py), as a state  *)
(* machine over the eight CSV input files.                                 *)
(*                                                                         *)
(* Conventions.                                                            *)
(*  - A table (DataFrame) is a sequence of records, in row order.          *)
(*  - Text that the code compares or sorts (year_month, quarter, category  *)
(*    names) is a tuple of character codes, compared lexicographically as  *)
(*    Python compares str.  The empty tuple is a missing text cell (NaN):  *)
(*    read_csv reads an empty cell as NaN.                                 *)
(*  - A float is a record [k, n, d]: k = "num" is the rational n/d, and    *)
(*    k = "nan" is NaN.  Rounding is exact round-half-even on the          *)
(*    rational (binary representation error of float64 is not modelled).   *)
(*  - A timestamp is a record [nat, y, m, d, h]; nat = TRUE is NaT.        *)
(***************************************************************************)
EXTENDS Integers, Sequences, FiniteSets, TLC

(***************************************************************************)
(* Bounds of the explored inputs.                                          *)
(***************************************************************************)
\* Number of edits (a row appended to a file, a file deleted, an old output
\* left behind) the environment makes to the initial directories before a
\* script runs.
MaxEdits == 2

(***************************************************************************)
(* Text                                                                    *)
(***************************************************************************)
NullText == << >>

\* "0".."9" are the codes 48..57
Digit(n) == 48 + n

\* zero-padded decimal of n on w digits, as strftime / Period.__str__ print it
RECURSIVE Digits(_, _)
Digits(n, w) == IF w = 0 THEN << >> ELSE Append(Digits(n \div 10, w - 1), Digit(n % 10))

\* Python's str <= str: lexicographic on code points
RECURSIVE StrLe(_, _)
StrLe(a, b) ==
    IF a = << >> THEN TRUE
    ELSE IF b = << >> THEN FALSE
    ELSE IF Head(a) < Head(b) THEN TRUE
    ELSE IF Head(a) > Head(b) THEN FALSE
    ELSE StrLe(Tail(a), Tail(b))

StrLt(a, b) == StrLe(a, b) /\ a # b

NaTStr   == <<78, 97, 84>>                       \* "NaT"
OtherStr == <<111, 116, 104, 101, 114>>          \* "other"
WindowLo == <<50, 48, 49, 55, 45, 48, 49>>       \* "2017-01"
WindowHi == <<50, 48, 49, 56, 45, 48, 56>>       \* "2018-08"

(***************************************************************************)
(* Floats                                                                  *)
(***************************************************************************)
Num(n)    == [k |-> "num", n |-> n, d |-> 1]
Frac(n, d) == [k |-> "num", n |-> n, d |-> d]
NaN       == [k |-> "nan", n |-> 0, d |-> 1]
IsNaN(x)  == x.k = "nan"

\* x == y as floats (NaN equals nothing; used only between numbers)
FEq(x, y) == x.k = "num" /\ y.k = "num" /\ x.n * y.d = y.n * x.d

FAdd(x, y) == IF IsNaN(x) \/ IsNaN(y) THEN NaN
              ELSE Frac(x.n * y.d + y.n * x.d, x.d * y.d)
FSub(x, y) == IF IsNaN(x) \/ IsNaN(y) THEN NaN
              ELSE Frac(x.n * y.d - y.n * x.d, x.d * y.d)
FMulInt(x, c) == IF IsNaN(x) THEN NaN ELSE Frac(x.n * c, x.d)

\* float64 division: a zero divisor gives nan (0/0) or +-inf, with a
\* RuntimeWarning and no exception; both are kept as the non-number NaN.
FDiv(x, y) ==
    IF IsNaN(x) \/ IsNaN(y) \/ y.n = 0 THEN NaN
    ELSE IF y.n > 0 THEN Frac(x.n * y.d, x.d * y.n)
    ELSE Frac(-(x.n * y.d), x.d * (-(y.n)))

RECURSIVE Pow10(_)
Pow10(e) == IF e = 0 THEN 1 ELSE 10 * Pow10(e - 1)

\* round(x, digits): the nearest multiple of 10^-digits, ties to even
Round(x, digits) ==
    IF IsNaN(x) THEN NaN
    ELSE LET s == x.n * Pow10(digits)
             q == s \div x.d
             r == s % x.d
             up == \/ 2 * r > x.d
                   \/ (2 * r = x.d /\ q % 2 = 1)
         IN  Frac(IF up THEN q + 1 ELSE q, Pow10(digits))

(***************************************************************************)
(* Sequences                                                               *)
(***************************************************************************)
Range(s) == {s[i] : i \in 1..Len(s)}

RECURSIVE Concat(_)
\* concatenation of a sequence of sequences
Concat(ss) == IF ss = << >> THEN << >> ELSE Head(ss) \o Concat(Tail(ss))

RECURSIVE SumInt(_)
SumInt(s) == IF s = << >> THEN 0 ELSE Head(s) + SumInt(Tail(s))

\* Series.sum() of a float column: NaN cells are skipped, empty sums to 0
RECURSIVE FSum(_)
FSum(s) == IF s = << >> THEN Num(0)
           ELSE IF IsNaN(Head(s)) THEN FSum(Tail(s))
           ELSE FAdd(Head(s), FSum(Tail(s)))

\* Series.mean(): NaN cells are skipped; nan when no number is left
FMean(s) ==
    LET nums == SelectSeq(s, LAMBDA x : ~IsNaN(x))
    IN  IF nums = << >> THEN NaN ELSE FDiv(FSum(nums), Num(Len(nums)))

\* DataFrame.head(n)
HeadN(s, n) == SubSeq(s, 1, IF Len(s) < n THEN Len(s) ELSE n)

RECURSIVE SortInts(_)
\* ascending sequence of a finite set of integers
SortInts(S) ==
    IF S = {} THEN << >>
    ELSE LET m == CHOOSE x \in S : \A y \in S : x <= y
         IN  <<m>> \o SortInts(S \ {m})

RECURSIVE SortStrs(_)
\* ascending (lexicographic) sequence of a finite set of texts
SortStrs(S) ==
    IF S = {} THEN << >>
    ELSE LET m == CHOOSE x \in S : \A y \in S : StrLe(x, y)
         IN  <<m>> \o SortStrs(S \ {m})

(***************************************************************************)
(* Timestamps                                                              *)
(***************************************************************************)
NaT == [nat |-> TRUE, y |-> 0, m |-> 0, d |-> 0, h |-> 0]

\* A CSV timestamp cell: ok = FALSE is an empty or malformed cell.
Cell(y, m, d, h) == [ok |-> TRUE, y |-> y, m |-> m, d |-> d, h |-> h]
BadCell == [ok |-> FALSE, y |-> 0, m |-> 0, d |-> 0, h |-> 0]

\* pd.to_datetime(col, errors='coerce')
ToDatetime(c) ==
    IF c.ok THEN [nat |-> FALSE, y |-> c.y, m |-> c.m, d |-> c.d, h |-> c.h]
    ELSE NaT

\* .dt.to_period('M').astype(str): "YYYY-MM", and "NaT" for NaT
ToPeriodM(t) ==
    IF t.nat THEN NaTStr ELSE Digits(t.y, 4) \o <<45>> \o Digits(t.m, 2)

\* .dt.to_period('Q').astype(str): "YYYYQn", and "NaT" for NaT
ToPeriodQ(t) ==
    IF t.nat THEN NaTStr
    ELSE Digits(t.y, 4) \o <<81>> \o <<Digit(((t.m - 1) \div 3) + 1)>>

IsLeap(y) == (y % 4 = 0 /\ y % 100 # 0) \/ y % 400 = 0

DaysInMonth(y, m) ==
    IF m = 2 THEN (IF IsLeap(y) THEN 29 ELSE 28)
    ELSE IF m \in {4, 6, 9, 11} THEN 30 ELSE 31

RECURSIVE DaysBeforeMonth(_, _)
DaysBeforeMonth(y, m) ==
    IF m = 1 THEN 0 ELSE DaysBeforeMonth(y, m - 1) + DaysInMonth(y, m - 1)

\* proleptic Gregorian ordinal of a date, then hours since the epoch
Ordinal(t) ==
    LET py == t.y - 1
    IN  365 * py + (py \div 4) - (py \div 100) + (py \div 400)
        + DaysBeforeMonth(t.y, t.m) + t.d

Hours(t) == 24 * Ordinal(t) + t.h

\* (a - b).dt.days: whole days of the difference, floored; NaT gives NaN
DtDays(a, b) ==
    IF a.nat \/ b.nat THEN NaN ELSE Num((Hours(a) - Hours(b)) \div 24)

\* a <= b on datetime64: FALSE when either side is NaT
DtLe(a, b) == ~a.nat /\ ~b.nat /\ Hours(a) <= Hours(b)

(***************************************************************************)
(* The explored input rows                                                 *)
(***************************************************************************)
OrderIds == {1, 2}

PurchaseCells ==
    { BadCell, Cell(2016, 12, 31, 23), Cell(2017, 1, 1, 0),
      Cell(2018, 8, 31, 23), Cell(2018, 9, 1, 0) }

Purchased  == Cell(2017, 1, 1, 20)
Arrived    == Cell(2017, 1, 4, 8)
Promised   == Cell(2017, 1, 4, 8)
PromisedEarly == Cell(2017, 1, 3, 0)

OrderRow(id, st, p, dc, est) ==
    [ order_id |-> id, customer_id |-> id, order_status |-> st,
      order_purchase_timestamp |-> p,
      order_delivered_customer_date |-> dc,
      order_estimated_delivery_date |-> est ]

\* Every purchase cell with both dates present; every combination of the two
\* delivery dates for one purchase cell; one order that is not delivered.
OrderRows ==
    {OrderRow(id, "delivered", p, Arrived, Promised) :
        id \in OrderIds, p \in PurchaseCells}
    \cup {OrderRow(id, "delivered", Purchased, dc, est) :
        id \in OrderIds, dc \in {BadCell, Arrived},
        est \in {BadCell, PromisedEarly}}
    \cup {OrderRow(id, "shipped", Purchased, BadCell, Promised) : id \in OrderIds}

Prices == {3, 7}

ItemRows ==
    { [ order_id |-> id, product_id |-> 1, seller_id |-> 1,
        price |-> p, freight_value |-> 1 ] : id \in OrderIds, p \in Prices }

PaymentKinds ==
    { <<"boleto", 1>>, <<"credit_card", 0>>, <<"credit_card", 1>>,
      <<"credit_card", 13>> }

PaymentRows ==
    { [ order_id |-> id, payment_type |-> k[1],
        payment_installments |-> k[2], payment_value |-> v ] :
        id \in OrderIds, k \in PaymentKinds, v \in {5, 7} }

ReviewRows ==
    { [ order_id |-> id, review_score |-> s ] : id \in OrderIds, s \in {4, 5} }

CustomerRows ==
    { [ customer_id |-> id, customer_state |-> "SP" ] : id \in OrderIds }

Cama == <<99, 97, 109, 97>>    \* "cama"
Bed  == <<98, 101, 100>>       \* "bed"

ProductRows ==
    { [ product_id |-> 1, product_category_name |-> c ] : c \in {NullText, Cama} }

SellerRows == { [ seller_id |-> 1, seller_state |-> "SP" ] }

TranslationRows ==
    { [ product_category_name |-> Cama, product_category_name_english |-> Bed ] }

\* The eight input files, in the order the scripts read them.
FileOrder ==
    << "olist_orders_dataset.csv", "olist_order_items_dataset.csv",
       "olist_order_payments_dataset.csv", "olist_order_reviews_dataset.csv",
       "olist_customers_dataset.csv", "olist_products_dataset.csv",
       "olist_sellers_dataset.csv", "product_category_name_translation.csv" >>

Files == Range(FileOrder)

(***************************************************************************)
(* State                                                                   *)
(***************************************************************************)
VARIABLES
    present,        \* the input files that exist in data/
    orders, items, payments, reviews, customers, products, sellers,
    translations,   \* the rows of each input file
    edits,          \* edits made to the directories before the run
    outfile,        \* output/dashboard_data.json
    pc,             \* position of the running script
    build,          \* the pandas the script imported
    err,            \* the file named by the exception that ended the run
    delivered, items_enriched, order_payments, master,
    scalars, kpis, pay_merged,
    monthly, categories, installments, quarterly, cat_monthly,
    cache,          \* st.cache_data entry of load_data
    cards,          \* the KPI cards of the last run of the dashboard script
    clock,          \* the time of day, read by datetime.now()
    previous        \* how the run before this one ended, and its output file

inputs == <<present, orders, items, payments, reviews, customers, products,
            sellers, translations, edits>>
derived == <<delivered, items_enriched, order_payments, master, scalars, kpis,
             pay_merged, monthly, categories, installments, quarterly,
             cat_monthly>>
rerun == <<clock, previous>>
vars == <<inputs, outfile, pc, build, err, derived, cache, cards, rerun>>

(***************************************************************************)
(* DataFrame operations                                                    *)
(***************************************************************************)
\* left.merge(right, on=key, how='inner'): rows in the order of left, each
\* with its matches in the order of right.
InnerMerge(left, right, key) ==
    Concat([i \in 1..Len(left) |->
        LET m == SelectSeq(right, LAMBDA r : r[key] = left[i][key])
        IN  [j \in 1..Len(m) |-> left[i] @@ m[j]]])

\* left.merge(right, on=key, how='left'): a left row without a match is kept
\* once, with the columns of right missing (nulls).
LeftMerge(left, right, key, nulls) ==
    Concat([i \in 1..Len(left) |->
        LET m == SelectSeq(right, LAMBDA r : r[key] = left[i][key])
        IN  IF m = << >> THEN <<left[i] @@ nulls>>
            ELSE [j \in 1..Len(m) |-> left[i] @@ m[j]]])

\* df[cols]
Project(df, cols) == [i \in 1..Len(df) |-> [c \in cols |-> df[i][c]]]

Column(df, c) == [i \in 1..Len(df) |-> df[i][c]]

\* an integer column as floats
FColumn(df, c) == [i \in 1..Len(df) |-> Num(df[i][c])]

(***************************************************************************)
(* Cleaner (data_pipeline.py section 2, streamlit_app.py load_data)        *)
(***************************************************************************)
\* The text of a missing period: the object column of pandas < 3 holds the
\* string "NaT"; the str dtype of pandas >= 3 holds a missing value.
PeriodText(p, b) == IF p = NaTStr /\ b = "cow" THEN NullText ELSE p

ParseDates(ords) ==
    [i \in 1..Len(ords) |->
        [ords[i] EXCEPT
            !.order_purchase_timestamp = ToDatetime(@),
            !.order_delivered_customer_date = ToDatetime(@),
            !.order_estimated_delivery_date = ToDatetime(@)]]

IsDelivered(o) == o.order_status = "delivered"

\* delivered = orders[orders['order_status'] == 'delivered'] and its
\* year_month, quarter columns
Delivered(ords, b) ==
    LET parsed == ParseDates(ords)
        kept == SelectSeq(parsed, IsDelivered)
    IN  [i \in 1..Len(kept) |->
            kept[i] @@
            [ year_month |->
                PeriodText(ToPeriodM(kept[i].order_purchase_timestamp), b),
              quarter |->
                PeriodText(ToPeriodQ(kept[i].order_purchase_timestamp), b) ]]

(***************************************************************************)
(* Joiner                                                                  *)
(***************************************************************************)
\* items.merge(products[[...]], how='left').merge(translations, how='left')
EnrichRaw(its, prods, trans) ==
    LeftMerge(
        LeftMerge(its, Project(prods, {"product_id", "product_category_name"}),
                  "product_id", [product_category_name |-> NullText]),
        trans, "product_category_name",
        [product_category_name_english |-> NullText])

\* Series.fillna('other')
FillOther(df, c) ==
    [i \in 1..Len(df) |->
        IF df[i][c] = NullText THEN [df[i] EXCEPT ![c] = OtherStr] ELSE df[i]]

\* items_enriched['product_category_name_english'].fillna('other',
\* inplace=True): an inplace method on a column selected from the frame.
\* It updates the frame in pandas < 3; under Copy-on-Write (pandas >= 3) the
\* selected column is a copy and the frame is left as it was.
ChainedFillOther(df, c, b) == IF b = "cow" THEN df ELSE FillOther(df, c)

ItemsEnriched(its, prods, trans, b) ==
    ChainedFillOther(EnrichRaw(its, prods, trans),
                     "product_category_name_english", b)

\* streamlit_app.py: items_e['category'] = items_e[...].fillna('other')
ItemsE(its, prods, trans) ==
    LET raw == EnrichRaw(its, prods, trans)
        filled == FillOther(raw, "product_category_name_english")
    IN  [i \in 1..Len(raw) |->
            raw[i] @@ [category |-> filled[i].product_category_name_english]]

\* agg 'sum', 'first' and 'max' of the rows of one group
GroupSum(rows, c) == FSum(FColumn(rows, c))
GroupFirst(rows, c) == rows[1][c]
GroupMax(rows, c) ==
    CHOOSE x \in Range(Column(rows, c)) : \A y \in Range(Column(rows, c)) : y <= x

\* the payment aggregation taking one row's value ('first') for the sum
OrderPaymentsFirst(pays) ==
    LET keys == SortInts(Range(Column(pays, "order_id")))
    IN  [g \in 1..Len(keys) |->
            LET rows == SelectSeq(pays, LAMBDA r : r.order_id = keys[g])
            IN  [ order_id |-> keys[g],
                  payment_value |-> Num(GroupFirst(rows, "payment_value")),
                  payment_type |-> GroupFirst(rows, "payment_type"),
                  max_installments |->
                      Num(GroupMax(rows, "payment_installments")) ]]

\* the payment rows joined as they are, without the aggregation per order
OrderPaymentsRaw(pays) ==
    [i \in 1..Len(pays) |->
        [ order_id |-> pays[i].order_id,
          payment_value |-> Num(pays[i].payment_value),
          payment_type |-> pays[i].payment_type,
          max_installments |-> Num(pays[i].payment_installments) ]]

\* payments.groupby('order_id').agg(...).reset_index(): one row per
\* order_id, keys ascending
OrderPayments(pays) ==
    LET keys == SortInts(Range(Column(pays, "order_id")))
    IN  [g \in 1..Len(keys) |->
            LET rows == SelectSeq(pays, LAMBDA r : r.order_id = keys[g])
            IN  [ order_id |-> keys[g],
                  payment_value |-> GroupSum(rows, "payment_value"),
                  payment_type |-> GroupFirst(rows, "payment_type"),
                  max_installments |->
                      Num(GroupMax(rows, "payment_installments")) ]]

NoPayment  == [payment_value |-> NaN, payment_type |-> "", max_installments |-> NaN]
NoCustomer == [customer_state |-> ""]
NoSeller   == [seller_state |-> ""]

\* the window filter without its upper comparison
InWindowNoUpper(ym) == ym # NullText /\ StrLe(WindowLo, ym)

\* (master['year_month'] >= '2017-01') & (master['year_month'] <= '2018-08');
\* a comparison with a missing value is False
InWindow(ym) == ym # NullText /\ StrLe(WindowLo, ym) /\ StrLe(ym, WindowHi)

WindowFilter(df) == SelectSeq(df, LAMBDA r : InWindow(r.year_month))

\* the master joins with the payment join made an inner join
MasterJoinInnerPayments(deliv, enriched, opay, custs, sells) ==
    LeftMerge(
        LeftMerge(
            InnerMerge(InnerMerge(deliv, enriched, "order_id"), opay, "order_id"),
            Project(custs, {"customer_id", "customer_state"}),
            "customer_id", NoCustomer),
        Project(sells, {"seller_id", "seller_state"}), "seller_id", NoSeller)

\* the joins of the master table, before the window filter
MasterJoin(deliv, enriched, opay, custs, sells) ==
    LeftMerge(
        LeftMerge(
            LeftMerge(InnerMerge(deliv, enriched, "order_id"),
                      opay, "order_id", NoPayment),
            Project(custs, {"customer_id", "customer_state"}),
            "customer_id", NoCustomer),
        Project(sells, {"seller_id", "seller_state"}), "seller_id", NoSeller)

Master(deliv, enriched, opay, custs, sells) ==
    WindowFilter(MasterJoin(deliv, enriched, opay, custs, sells))

\* streamlit_app.py: no payment and no seller join
MasterApp(deliv, enriched, custs) ==
    WindowFilter(
        LeftMerge(InnerMerge(deliv, enriched, "order_id"),
                  Project(custs, {"customer_id", "customer_state"}),
                  "customer_id", NoCustomer))

(***************************************************************************)
(* Metric engine: scalar KPIs (data_pipeline.py section 3)                 *)
(***************************************************************************)
\* payments.merge(delivered[['order_id']], on='order_id')
PayMerged(pays, deliv) ==
    InnerMerge(pays, Project(deliv, {"order_id"}), "order_id")

\* reviews.merge(delivered[['order_id']], on='order_id')
ReviewData(revs, deliv) ==
    InnerMerge(revs, Project(deliv, {"order_id"}), "order_id")

\* the dropna looking at the delivered-customer date alone
DelDataOneDate(deliv) ==
    LET kept == SelectSeq(deliv, LAMBDA o :
                    ~o.order_delivered_customer_date.nat)
    IN  [i \in 1..Len(kept) |->
            kept[i] @@
            [ delivery_days |->
                DtDays(kept[i].order_delivered_customer_date,
                       kept[i].order_purchase_timestamp),
              on_time |->
                DtLe(kept[i].order_delivered_customer_date,
                     kept[i].order_estimated_delivery_date) ]]

\* delivered.dropna(subset=[...]) with its delivery_days and on_time columns
DelData(deliv) ==
    LET kept == SelectSeq(deliv, LAMBDA o :
                    /\ ~o.order_delivered_customer_date.nat
                    /\ ~o.order_estimated_delivery_date.nat)
    IN  [i \in 1..Len(kept) |->
            kept[i] @@
            [ delivery_days |->
                DtDays(kept[i].order_delivered_customer_date,
                       kept[i].order_purchase_timestamp),
              on_time |->
                DtLe(kept[i].order_delivered_customer_date,
                     kept[i].order_estimated_delivery_date) ]]

\* mean of a boolean column
BoolMean(bs) ==
    FMean([i \in 1..Len(bs) |-> IF bs[i] THEN Num(1) ELSE Num(0)])

\* the revenue summed over all payment rows, delivered or not
TotalRevenueAllPayments(pays, deliv) == FSum(FColumn(pays, "payment_value"))

TotalRevenue(pays, deliv) == FSum(FColumn(PayMerged(pays, deliv), "payment_value"))

\* the order count restricted to the analysis window
TotalOrdersInWindow(deliv) == Len(WindowFilter(deliv))

TotalOrders(deliv) == Len(deliv)

\* the average order value without its guard on an empty order set
AvgOrderValueUnguarded(total_revenue, total_orders) ==
    FDiv(total_revenue, Num(total_orders))

AvgOrderValue(total_revenue, total_orders) ==
    IF total_orders # 0 THEN FDiv(total_revenue, Num(total_orders)) ELSE Num(0)

AvgReview(review_data) ==
    IF review_data # << >> THEN FMean(FColumn(review_data, "review_score"))
    ELSE Num(0)

FiveStarPct(review_data) ==
    IF review_data # << >>
    THEN FMulInt(BoolMean([i \in 1..Len(review_data) |->
                          review_data[i].review_score = 5]), 100)
    ELSE Num(0)

OnTimePct(del_data) ==
    IF del_data # << >>
    THEN FMulInt(BoolMean(Column(del_data, "on_time")), 100)
    ELSE Num(0)

AvgDeliveryDays(del_data) ==
    IF del_data # << >> THEN FMean(Column(del_data, "delivery_days")) ELSE Num(0)

IsCreditCard(p) == p.payment_type = "credit_card"

CreditCardShare(pm) ==
    IF pm # << >>
    THEN FMulInt(FDiv(FSum(FColumn(SelectSeq(pm, IsCreditCard), "payment_value")),
                      FSum(FColumn(pm, "payment_value"))), 100)
    ELSE Num(0)

\* the script's variables of section 3, before rounding
Scalars(pays, revs, deliv, mast) ==
    [ total_revenue |-> TotalRevenue(pays, deliv),
      total_orders |-> TotalOrders(deliv),
      avg_order_value |-> AvgOrderValue(TotalRevenue(pays, deliv), TotalOrders(deliv)),
      total_customers |-> Cardinality(Range(Column(deliv, "customer_id"))),
      total_sellers |-> Cardinality(Range(Column(mast, "seller_id"))),
      avg_review |-> AvgReview(ReviewData(revs, deliv)),
      five_star_pct |-> FiveStarPct(ReviewData(revs, deliv)),
      on_time_pct |-> OnTimePct(DelData(deliv)),
      avg_delivery_days |-> AvgDeliveryDays(DelData(deliv)),
      credit_card_share |-> CreditCardShare(PayMerged(pays, deliv)) ]

\* the kpis dict: the same values at presentation precision
Kpis(sc) ==
    [ total_revenue |-> Round(sc.total_revenue, 2),
      total_orders |-> sc.total_orders,
      avg_order_value |-> Round(sc.avg_order_value, 2),
      total_customers |-> sc.total_customers,
      total_sellers |-> sc.total_sellers,
      avg_review_score |-> Round(sc.avg_review, 2),
      five_star_pct |-> Round(sc.five_star_pct, 1),
      on_time_pct |-> Round(sc.on_time_pct, 1),
      avg_delivery_days |-> Round(sc.avg_delivery_days, 1),
      credit_card_share |-> Round(sc.credit_card_share, 1) ]

(***************************************************************************)
(* Metric engine: grouped aggregates (data_pipeline.py section 4)          *)
(***************************************************************************)
\* the rows of df whose column c is key
Group(df, c, key) == SelectSeq(df, LAMBDA r : r[c] = key)

\* groupby keys: the distinct non-missing texts of a column, ascending
\* (groupby sorts its keys and drops missing ones)
TextKeys(df, c) == SortStrs(Range(Column(df, c)) \ {NullText})

NUnique(rows, c) == Cardinality(Range(Column(rows, c)))

FLe(x, y) == x.n * y.d <= y.n * x.d

RECURSIVE SortDescBy(_, _)
\* sort_values(c, ascending=False): rows of equal value keep their order
SortDescBy(df, c) ==
    IF df = << >> THEN << >>
    ELSE LET i == CHOOSE a \in 1..Len(df) :
                    /\ \A b \in 1..Len(df) : FLe(df[b][c], df[a][c])
                    /\ \A b \in 1..(a - 1) : ~FLe(df[a][c], df[b][c])
         IN  <<df[i]>> \o
             SortDescBy(SubSeq(df, 1, i - 1) \o SubSeq(df, i + 1, Len(df)), c)

\* monthly revenue trend
Monthly(mast) ==
    LET keys == TextKeys(mast, "year_month")
    IN  [g \in 1..Len(keys) |->
            LET rows == Group(mast, "year_month", keys[g])
                rev == GroupSum(rows, "price")
                fr  == GroupSum(rows, "freight_value")
            IN  [ year_month |-> keys[g], revenue |-> rev, freight |-> fr,
                  orders |-> NUnique(rows, "order_id"),
                  total |-> FAdd(rev, fr) ]]

\* top categories by revenue
Categories(mast) ==
    LET keys == TextKeys(mast, "product_category_name_english")
        grouped ==
            [g \in 1..Len(keys) |->
                LET rows == Group(mast, "product_category_name_english", keys[g])
                IN  [ product_category_name_english |-> keys[g],
                      revenue |-> GroupSum(rows, "price"),
                      orders |-> NUnique(rows, "order_id"),
                      avg_price |-> FMean(FColumn(rows, "price")) ]]
    IN  HeadN(SortDescBy(grouped, "revenue"), 15)

\* instalments analysis
Installments(pm) ==
    LET cc == SelectSeq(pm, IsCreditCard)
        keys == SortInts(Range(Column(cc, "payment_installments")))
        grouped ==
            [g \in 1..Len(keys) |->
                LET rows == Group(cc, "payment_installments", keys[g])
                IN  [ payment_installments |-> keys[g],
                      count |-> Len(rows),
                      total |-> GroupSum(rows, "payment_value") ]]
    IN  HeadN(grouped, 12)

\* the growth taken relative to the current quarter instead of the previous
GrowthPctOverCurrent(revs, i) ==
    IF i = 1 THEN NaN
    ELSE Round(FMulInt(FSub(Num(1), FDiv(revs[i - 1], revs[i])), 100), 1)

\* Series.pct_change() * 100, rounded to 1 decimal: nan on the first row
GrowthPct(revs, i) ==
    IF i = 1 THEN NaN
    ELSE Round(FMulInt(FSub(FDiv(revs[i], revs[i - 1]), Num(1)), 100), 1)

\* quarterly growth
Quarterly(mast) ==
    LET keys == TextKeys(mast, "quarter")
        revs == [g \in 1..Len(keys) |->
                    GroupSum(Group(mast, "quarter", keys[g]), "price")]
    IN  [g \in 1..Len(keys) |->
            [ quarter |-> keys[g], revenue |-> revs[g],
              orders |-> NUnique(Group(mast, "quarter", keys[g]), "order_id"),
              growth_pct |-> GrowthPct(revs, g) ]]

\* category monthly trend (top 5): keys (year_month, category) ascending
CatMonthly(mast, cats) ==
    LET top5 == Range(Column(HeadN(cats, 5), "product_category_name_english"))
        sel == SelectSeq(mast, LAMBDA r : r.product_category_name_english \in top5)
        yms == TextKeys(sel, "year_month")
    IN  Concat([a \in 1..Len(yms) |->
            LET inMonth == Group(sel, "year_month", yms[a])
                cs == TextKeys(inMonth, "product_category_name_english")
            IN  [b \in 1..Len(cs) |->
                    [ year_month |-> yms[a],
                      product_category_name_english |-> cs[b],
                      revenue |-> GroupSum(
                          Group(inMonth, "product_category_name_english", cs[b]),
                          "price") ]]])

(***************************************************************************)
(* Export and the dashboard's loader                                       *)
(***************************************************************************)
\* dashboard_json, without metadata.generated_at
DashboardJson(k, mo, ca, ins, qu, cm, mast) ==
    [ kpis |-> k, monthly_revenue |-> mo, top_categories |-> ca,
      installments |-> ins, quarterly |-> qu, category_monthly |-> cm,
      total_records_analyzed |-> Len(mast) ]

BlankScalars == Scalars(<< >>, << >>, << >>, << >>)
BlankDoc == DashboardJson(Kpis(BlankScalars), << >>, << >>, << >>, << >>, << >>, << >>)

\* output/dashboard_data.json: absent, left by an earlier run, or written
\* by this run; generated_at is metadata.generated_at of its document
NoOutput ==
    [exists |-> FALSE, origin |-> "none", doc |-> BlankDoc, generated_at |-> 0]
OldOutput ==
    [exists |-> TRUE, origin |-> "earlier", doc |-> BlankDoc,
     generated_at |-> 0]

\* no run of the script has ended yet
NoRun == [pc |-> "none", err |-> "none", outfile |-> NoOutput]

\* the first file, in reading order, that does not exist
FirstMissing(pres) ==
    LET idx == {i \in 1..Len(FileOrder) : FileOrder[i] \notin pres}
    IN  IF idx = {} THEN "none"
        ELSE FileOrder[CHOOSE i \in idx : \A j \in idx : i <= j]

\* load_data(): the five frames, or five None when a file is not found
LoadDataResult(pres, ords, its, pays, revs, custs, prods, trans, b) ==
    IF FirstMissing(pres) # "none"
    THEN [ filled |-> TRUE, ok |-> FALSE, master |-> << >>, delivered |-> << >>,
           payments |-> << >>, reviews |-> << >>, del_data |-> << >> ]
    ELSE LET deliv == Delivered(ords, b)
         IN  [ filled |-> TRUE, ok |-> TRUE,
               master |-> MasterApp(deliv, ItemsE(its, prods, trans), custs),
               delivered |-> deliv, payments |-> pays, reviews |-> revs,
               del_data |-> DelData(deliv) ]

EmptyCache ==
    [ filled |-> FALSE, ok |-> FALSE, master |-> << >>, delivered |-> << >>,
      payments |-> << >>, reviews |-> << >>, del_data |-> << >> ]

\* no card on the page: the script has not run, or st.stop() ended it
NoCards ==
    [ shown |-> FALSE, total_rev |-> Num(0), total_rev_millions |-> Num(0),
      total_orders |-> 0, avg_order_value |-> Num(0), unique_customers |-> 0,
      avg_review |-> Num(0), avg_delivery |-> Num(0), on_time |-> Num(0),
      credit_card_share |-> Num(0), five_star |-> Num(0) ]

\* streamlit_app.py lines 178-193: the KPI row, computed from the frames
\* load_data returned, each number as its format prints it (.1f, .2f).  No
\* card guards an empty frame: a mean of no rows and a sum divided by a zero
\* sum or by zero orders are not numbers (the card prints "nan"; where the
\* sum of an empty object column is the int 0 the division raises
\* ZeroDivisionError and the page shows the exception instead of the card).
Cards(c) ==
    IF ~c.ok THEN NoCards
    ELSE LET pm == PayMerged(c.payments, c.delivered)
             total_rev == FSum(FColumn(pm, "payment_value"))
             rev_scores == ReviewData(c.reviews, c.delivered)
         IN  [ shown |-> TRUE,
               total_rev |-> total_rev,
               total_rev_millions |-> Round(FDiv(total_rev, Num(1000000)), 1),
               total_orders |-> Len(c.delivered),
               avg_order_value |->
                   Round(FDiv(total_rev, Num(Len(c.delivered))), 2),
               unique_customers |->
                   Cardinality(Range(Column(c.delivered, "customer_id"))),
               avg_review |->
                   Round(FMean(FColumn(rev_scores, "review_score")), 2),
               avg_delivery |->
                   Round(FMean(Column(c.del_data, "delivery_days")), 1),
               on_time |->
                   Round(FMulInt(BoolMean(Column(c.del_data, "on_time")), 100), 1),
               credit_card_share |->
                   Round(FMulInt(
                       FDiv(FSum(FColumn(SelectSeq(pm, IsCreditCard),
                                         "payment_value")),
                            FSum(FColumn(pm, "payment_value"))), 100), 1),
               five_star |->
                   Round(FMulInt(BoolMean([i \in 1..Len(rev_scores) |->
                             rev_scores[i].review_score = 5]), 100), 1) ]

(***************************************************************************)
(* Initial state: the eight files exist, either with a header and no rows  *)
(* or with one delivered order of January 2017 and its one item.           *)
(***************************************************************************)
SeedOrder == OrderRow(1, "delivered", Cell(2017, 1, 1, 0), Arrived, Promised)
SeedItem ==
    [order_id |-> 1, product_id |-> 1, seller_id |-> 1, price |-> 3,
     freight_value |-> 1]

Init ==
    /\ present = Files
    /\ \/ orders = << >> /\ items = << >>
       \/ orders = <<SeedOrder>> /\ items = <<SeedItem>>
    /\ payments = << >> /\ reviews = << >>
    /\ customers = << >> /\ products = << >> /\ sellers = << >>
    /\ translations = << >>
    /\ edits = 0
    /\ outfile = NoOutput
    /\ pc = "setup"
    /\ build = "unloaded"
    /\ err = "none"
    /\ delivered = << >> /\ items_enriched = << >> /\ order_payments = << >>
    /\ master = << >>
    /\ scalars = BlankScalars /\ kpis = Kpis(BlankScalars)
    /\ pay_merged = << >>
    /\ monthly = << >> /\ categories = << >> /\ installments = << >>
    /\ quarterly = << >> /\ cat_monthly = << >>
    /\ cache = EmptyCache
    /\ cards = NoCards
    /\ clock = 1
    /\ previous = NoRun

(***************************************************************************)
(* The environment: edits of data/ and output/ before a script runs        *)
(***************************************************************************)
\* the files are edited between runs of a script: before the first one, or
\* while a dashboard session is open and its script is not running
CanEdit(f) == pc \in {"setup", "session"} /\ edits < MaxEdits /\ f \in present

Rest == <<outfile, pc, build, err, derived, cache, cards, rerun>>

AddOrder ==
    /\ CanEdit(FileOrder[1])
    /\ \E r \in OrderRows : orders' = Append(orders, r)
    /\ edits' = edits + 1
    /\ UNCHANGED <<present, items, payments, reviews, customers, products,
                   sellers, translations, Rest>>

AddItem ==
    /\ CanEdit(FileOrder[2])
    /\ \E r \in ItemRows : items' = Append(items, r)
    /\ edits' = edits + 1
    /\ UNCHANGED <<present, orders, payments, reviews, customers, products,
                   sellers, translations, Rest>>

AddPayment ==
    /\ CanEdit(FileOrder[3])
    /\ \E r \in PaymentRows : payments' = Append(payments, r)
    /\ edits' = edits + 1
    /\ UNCHANGED <<present, orders, items, reviews, customers, products,
                   sellers, translations, Rest>>

AddReview ==
    /\ CanEdit(FileOrder[4])
    /\ \E r \in ReviewRows : reviews' = Append(reviews, r)
    /\ edits' = edits + 1
    /\ UNCHANGED <<present, orders, items, payments, customers, products,
                   sellers, translations, Rest>>

AddCustomer ==
    /\ CanEdit(FileOrder[5])
    /\ \E r \in CustomerRows : customers' = Append(customers, r)
    /\ edits' = edits + 1
    /\ UNCHANGED <<present, orders, items, payments, reviews, products,
                   sellers, translations, Rest>>

AddProduct ==
    /\ CanEdit(FileOrder[6])
    /\ \E r \in ProductRows : products' = Append(products, r)
    /\ edits' = edits + 1
    /\ UNCHANGED <<present, orders, items, payments, reviews, customers,
                   sellers, translations, Rest>>

AddSeller ==
    /\ CanEdit(FileOrder[7])
    /\ \E r \in SellerRows : sellers' = Append(sellers, r)
    /\ edits' = edits + 1
    /\ UNCHANGED <<present, orders, items, payments, reviews, customers,
                   products, translations, Rest>>

AddTranslation ==
    /\ CanEdit(FileOrder[8])
    /\ \E r \in TranslationRows : translations' = Append(translations, r)
    /\ edits' = edits + 1
    /\ UNCHANGED <<present, orders, items, payments, reviews, customers,
                   products, sellers, Rest>>

\* the rows of file number i after file f was deleted
Without(f, i, rows) == IF f = FileOrder[i] THEN << >> ELSE rows

DeleteFile ==
    \E f \in Files :
        /\ CanEdit(f)
        /\ present' = present \ {f}
        /\ orders' = Without(f, 1, orders)
        /\ items' = Without(f, 2, items)
        /\ payments' = Without(f, 3, payments)
        /\ reviews' = Without(f, 4, reviews)
        /\ customers' = Without(f, 5, customers)
        /\ products' = Without(f, 6, products)
        /\ sellers' = Without(f, 7, sellers)
        /\ translations' = Without(f, 8, translations)
        /\ edits' = edits + 1
        /\ UNCHANGED Rest

\* an earlier run left its output file
LeaveOldOutput ==
    /\ pc = "setup" /\ edits < MaxEdits
    /\ ~outfile.exists
    /\ outfile' = OldOutput
    /\ edits' = edits + 1
    /\ UNCHANGED <<present, orders, items, payments, reviews, customers,
                   products, sellers, translations, pc, build, err, derived,
                   cache, cards, rerun>>

(***************************************************************************)
(* data_pipeline.py, section by section                                    *)
(***************************************************************************)
Builds == {"legacy", "cow"}

\* the loads going on after a missing file
LoadDataIgnoringMissing ==
    /\ pc \in {"setup", "again"}
    /\ build' \in (IF build = "unloaded" THEN Builds ELSE {build})
    /\ err' = "none"
    /\ pc' = "loaded"
    /\ UNCHANGED <<inputs, outfile, derived, cache, cards, rerun>>

\* lines 17-40: import pandas (the installed one: the same in every run),
\* then the eight read_csv in order; the first missing file raises
\* FileNotFoundError naming it and the script ends.
LoadData ==
    /\ pc \in {"setup", "again"}
    /\ build' \in (IF build = "unloaded" THEN Builds ELSE {build})
    /\ err' = FirstMissing(present)
    /\ pc' = IF FirstMissing(present) = "none" THEN "loaded" ELSE "aborted"
    /\ UNCHANGED <<inputs, outfile, derived, cache, cards, rerun>>

\* lines 53-98: cleaning, enrichment, payment aggregation, master table
Transform ==
    /\ pc = "loaded"
    /\ delivered' = Delivered(orders, build)
    /\ items_enriched' = ItemsEnriched(items, products, translations, build)
    /\ order_payments' = OrderPayments(payments)
    /\ master' = Master(delivered', items_enriched', order_payments',
                        customers, sellers)
    /\ pc' = "joined"
    /\ UNCHANGED <<inputs, outfile, build, err, scalars, kpis, pay_merged,
                   monthly, categories, installments, quarterly, cat_monthly,
                   cache, cards, rerun>>

\* lines 106-140: the scalar KPIs
ComputeKpis ==
    /\ pc = "joined"
    /\ scalars' = Scalars(payments, reviews, delivered, master)
    /\ kpis' = Kpis(scalars')
    /\ pay_merged' = PayMerged(payments, delivered)
    /\ pc' = "kpis"
    /\ UNCHANGED <<inputs, outfile, build, err, delivered, items_enriched,
                   order_payments, master, monthly, categories, installments,
                   quarterly, cat_monthly, cache, cards, rerun>>

\* lines 153-223: the grouped aggregates
Aggregate ==
    /\ pc = "kpis"
    /\ monthly' = Monthly(master)
    /\ categories' = Categories(master)
    /\ installments' = Installments(pay_merged)
    /\ quarterly' = Quarterly(master)
    /\ cat_monthly' = CatMonthly(master, categories')
    /\ pc' = "aggregated"
    /\ UNCHANGED <<inputs, outfile, build, err, delivered, items_enriched,
                   order_payments, master, scalars, kpis, pay_merged, cache,
                   cards, rerun>>

\* the output directory made without exist_ok: an output directory that is
\* there already raises FileExistsError and nothing is written
ExportWithoutExistOk ==
    /\ pc = "aggregated"
    /\ IF outfile.exists
       THEN /\ pc' = "aborted"
            /\ err' = "output"
            /\ UNCHANGED outfile
       ELSE /\ pc' = "done"
            /\ outfile' = [ exists |-> TRUE, origin |-> "run",
                            doc |-> DashboardJson(kpis, monthly, categories,
                                                  installments, quarterly,
                                                  cat_monthly, master),
                            generated_at |-> clock ]
            /\ UNCHANGED err
    /\ UNCHANGED <<inputs, build, derived, cache, cards, rerun>>

\* lines 230-251: the document is built with the time of day in
\* metadata.generated_at, output/ is made if it is not there, and the file
\* is opened for writing (truncated) and written in one json.dump
Export ==
    /\ pc = "aggregated"
    /\ outfile' = [ exists |-> TRUE, origin |-> "run",
                    doc |-> DashboardJson(kpis, monthly, categories,
                                          installments, quarterly, cat_monthly,
                                          master),
                    generated_at |-> clock ]
    /\ pc' = "done"
    /\ UNCHANGED <<inputs, build, err, derived, cache, cards, rerun>>

\* python data_pipeline.py once more, later, on the files as they are: a
\* second run of the script, which starts from nothing but the directories
RunAgain ==
    /\ pc \in {"done", "aborted"}
    /\ previous = NoRun
    /\ previous' = [pc |-> pc, err |-> err, outfile |-> outfile]
    /\ clock' = clock + 1
    /\ pc' = "again"
    /\ UNCHANGED <<inputs, outfile, build, err, derived, cache, cards>>

(***************************************************************************)
(* streamlit_app.py: one run of the script                                 *)
(***************************************************************************)
\* lines 87-193: load_data() through st.cache_data, keyed by the function
\* and its (empty) arguments: a filled entry is returned as it is, whatever
\* the files hold by now; st.stop() when it returned None, the KPI row
\* otherwise.
RunApp ==
    /\ build' \in (IF build = "unloaded" THEN Builds ELSE {build})
    /\ cache' = IF cache.filled THEN cache
                ELSE LoadDataResult(present, orders, items, payments, reviews,
                                    customers, products, translations, build')
    /\ cards' = Cards(cache')
    /\ pc' = "rendered"
    /\ UNCHANGED <<inputs, outfile, err, derived, rerun>>

\* a run of the dashboard script: the first of a session, a rerun of the
\* page, or a rerun after the files were edited
Render ==
    /\ pc \in {"setup", "rendered", "session"}
    /\ RunApp

\* the dashboard opened after the batch script has finished
RenderAfterPipeline ==
    /\ pc = "done"
    /\ RunApp

\* the script run is over; the session, and the cache with it, stays
EndRun ==
    /\ pc = "rendered"
    /\ pc' = "session"
    /\ UNCHANGED <<inputs, outfile, build, err, derived, cache, cards, rerun>>

Next ==
    \/ AddOrder \/ AddItem \/ AddPayment \/ AddReview
    \/ AddCustomer \/ AddProduct \/ AddSeller \/ AddTranslation
    \/ DeleteFile \/ LeaveOldOutput
    \/ LoadData \/ Transform \/ ComputeKpis \/ Aggregate \/ Export
    \/ Render

Spec == Init /\ [][Next]_vars

\* the batch script run a second time on the same files
RerunNext == Next \/ RunAgain

RerunSpec == Init /\ [][RerunNext]_vars

\* a dashboard session: opened before or after the batch script ran, its
\* script rerun while the files are edited
SessionNext == Next \/ RenderAfterPipeline \/ EndRun

SessionSpec == Init /\ [][SessionNext]_vars

(***************************************************************************)
(* Properties                                                              *)
(***************************************************************************)
AfterJoin == {"joined", "kpis", "aggregated", "done"}
AfterKpis == {"kpis", "aggregated", "done"}
AfterAggregate == {"aggregated", "done"}

\* the months of the analysis window, as a count of months
MonthIndex(t) == 12 * t.y + t.m
MonthInWindow(t) ==
    /\ ~t.nat
    /\ 12 * 2017 + 1 <= MonthIndex(t)
    /\ MonthIndex(t) <= 12 * 2018 + 8

HasItem(id) == \E i \in 1..Len(items) : items[i].order_id = id

DeliveredRows == {i \in 1..Len(orders) : orders[i].order_status = "delivered"}

Purchase(i) == ToDatetime(orders[i].order_purchase_timestamp)

AllInWindow(m) ==
    \A i \in 1..Len(m) :
        /\ StrLe(WindowLo, m[i].year_month)
        /\ StrLe(m[i].year_month, WindowHi)
        /\ MonthInWindow(m[i].order_purchase_timestamp)

\* an order of the first or of the last month of the window keeps its rows
BoundsKept(m) ==
    \A i \in DeliveredRows :
        ( /\ ~Purchase(i).nat
          /\ MonthIndex(Purchase(i)) \in {12 * 2017 + 1, 12 * 2018 + 8}
          /\ HasItem(orders[i].order_id) )
        => \E j \in 1..Len(m) :
              /\ m[j].order_id = orders[i].order_id
              /\ m[j].order_purchase_timestamp = Purchase(i)

\* C1: after the window filter every row of the master table, of the batch
\* script and of the dashboard's loader, has a year_month between "2017-01"
\* and "2018-08" (its purchase month is one of the window's, so no row of an
\* unparsable purchase timestamp survives), and the rows of both bounding
\* months are kept.
C1_MasterInWindow ==
    /\ pc \in AfterJoin => AllInWindow(master) /\ BoundsKept(master)
    /\ cache.ok => AllInWindow(cache.master) /\ BoundsKept(cache.master)

\* a delivered order with an unparsable purchase cell and an item was
\* joined, and rows of other orders survived the filter
C1_Witness ==
    /\ pc = "joined"
    /\ master # << >>
    /\ \E i \in DeliveredRows :
          ~orders[i].order_purchase_timestamp.ok /\ HasItem(orders[i].order_id)

PaymentsOf(id) == SelectSeq(payments, LAMBDA p : p.order_id = id)

\* C2: order_payments has exactly one row for every order_id of the payment
\* file, and its payment_value is the sum of the payment_value of all the
\* payment rows of that order; so the total of order_payments is the total
\* of the payment rows.
C2_PaymentValueIsSum ==
    pc \in AfterJoin =>
        /\ \A id \in OrderIds :
              LET agg == SelectSeq(order_payments, LAMBDA r : r.order_id = id)
              IN  IF PaymentsOf(id) = << >> THEN agg = << >>
                  ELSE /\ Len(agg) = 1
                       /\ FEq(agg[1].payment_value,
                              Num(SumInt(Column(PaymentsOf(id), "payment_value"))))
        /\ FEq(FSum(Column(order_payments, "payment_value")),
               Num(SumInt(Column(payments, "payment_value"))))

\* an order paid in two rows of different value
C2_Witness ==
    /\ pc = "joined"
    /\ \E id \in OrderIds :
          /\ Len(PaymentsOf(id)) = 2
          /\ PaymentsOf(id)[1].payment_value # PaymentsOf(id)[2].payment_value

\* C3: total_orders is the number of rows of the order file whose status is
\* "delivered", whatever their purchase month and whether they have items;
\* the dashboard's "Total Orders" card counts the same rows.
C3_TotalOrdersCountsDelivered ==
    /\ pc \in AfterKpis =>
          /\ scalars.total_orders = Cardinality(DeliveredRows)
          /\ kpis.total_orders = Cardinality(DeliveredRows)
    /\ cache.ok => Len(cache.delivered) = Cardinality(DeliveredRows)

\* a delivered order outside the window and a delivered order without items
\* are counted
C3_Witness ==
    /\ pc = "kpis"
    /\ \E i \in DeliveredRows : ~MonthInWindow(Purchase(i))
    /\ \E i \in DeliveredRows : ~HasItem(orders[i].order_id)
    /\ kpis.total_orders > Len(master)

DeliveredWithId(id) == {i \in DeliveredRows : orders[i].order_id = id}

\* C4 as stated: every payment row of a delivered order counts once
C4_EachPaymentOnce ==
    pc \in AfterKpis =>
        FEq(scalars.total_revenue,
            Num(SumInt([i \in 1..Len(payments) |->
                IF DeliveredWithId(payments[i].order_id) # {}
                THEN payments[i].payment_value ELSE 0])))

\* C4 amended: total_revenue is the sum, over the payment rows, of
\* payment_value times the number of delivered rows of the order file that
\* carry the payment's order_id: once when the delivered order is one row,
\* nothing for a payment of no delivered order; item prices are not used.
C4_RevenuePerDeliveredRow ==
    pc \in AfterKpis =>
        /\ FEq(scalars.total_revenue,
               Num(SumInt([i \in 1..Len(payments) |->
                   payments[i].payment_value
                       * Cardinality(DeliveredWithId(payments[i].order_id))])))
        /\ FEq(kpis.total_revenue, scalars.total_revenue)

\* a payment of a delivered order and a payment of no delivered order
C4_Witness ==
    /\ pc = "kpis"
    /\ \E i \in 1..Len(payments) : DeliveredWithId(payments[i].order_id) # {}
    /\ \E i \in 1..Len(payments) : DeliveredWithId(payments[i].order_id) = {}
    /\ items # << >>

Translated(cat) ==
    \E i \in 1..Len(translations) :
        /\ translations[i].product_category_name = cat
        /\ translations[i].product_category_name_english # NullText

\* the item's product is unknown, has no category, or its category has no
\* translation
Unresolved(it) ==
    \A i \in 1..Len(products) :
        products[i].product_id = it.product_id
            => \/ products[i].product_category_name = NullText
               \/ ~Translated(products[i].product_category_name)

NoNullKey(agg) ==
    \A i \in 1..Len(agg) : agg[i].product_category_name_english # NullText

\* C5: the English category of an enriched item is never missing: an item
\* whose product is unknown, whose product has no category or whose category
\* has no translation has the category "other", in the batch script and in
\* the dashboard's loader, and no category aggregate has a missing key.
C5_CategoryNeverMissing ==
    /\ pc \in AfterJoin =>
          \A i \in 1..Len(items_enriched) :
              /\ items_enriched[i].product_category_name_english # NullText
              /\ Unresolved(items_enriched[i]) =>
                    items_enriched[i].product_category_name_english = OtherStr
    /\ pc \in AfterAggregate => NoNullKey(categories) /\ NoNullKey(cat_monthly)
    /\ cache.ok => \A i \in 1..Len(cache.master) :
                      cache.master[i].category # NullText

\* C6: an order has rows in the master table exactly when a delivered row of
\* it lies in the window and it has an item; every master row is of a
\* delivered order; and a master row has missing payment, customer or seller
\* columns exactly when the order has no payment, its customer no record,
\* its seller no record.
C6_MasterMembership ==
    pc \in AfterJoin =>
        /\ \A id \in OrderIds :
              (\E j \in 1..Len(master) : master[j].order_id = id)
              <=> /\ HasItem(id)
                  /\ \E i \in DeliveredWithId(id) : MonthInWindow(Purchase(i))
        /\ \A j \in 1..Len(master) :
              /\ master[j].order_status = "delivered"
              /\ IsNaN(master[j].payment_value)
                    <=> PaymentsOf(master[j].order_id) = << >>
              /\ master[j].payment_type = ""
                    <=> PaymentsOf(master[j].order_id) = << >>
              /\ master[j].customer_state = ""
                    <=> ~\E c \in 1..Len(customers) :
                            customers[c].customer_id = master[j].customer_id
              /\ master[j].seller_state = ""
                    <=> ~\E c \in 1..Len(sellers) :
                            sellers[c].seller_id = master[j].seller_id

\* a delivered order kept without payment, customer and seller records,
\* beside an order with an item that is not delivered
C6_Witness ==
    /\ pc = "joined"
    /\ master # << >>
    /\ payments = << >> /\ customers = << >> /\ sellers = << >>
    /\ \E i \in 1..Len(orders) :
          orders[i].order_status # "delivered" /\ HasItem(orders[i].order_id)

IsZero(x) == x.k = "num" /\ x.n = 0

NoDeliveredReview ==
    \A i \in 1..Len(reviews) : DeliveredWithId(reviews[i].order_id) = {}

NoDeliveredPayment ==
    \A i \in 1..Len(payments) : DeliveredWithId(payments[i].order_id) = {}

NoDatedDelivery ==
    \A i \in DeliveredRows :
        \/ ~orders[i].order_delivered_customer_date.ok
        \/ ~orders[i].order_estimated_delivery_date.ok

\* C7: a scalar KPI of the batch script over an empty input set is 0:
\* avg_order_value without delivered orders (and total_revenue /
\* total_orders otherwise), avg_review_score and five_star_pct without a
\* review of a delivered order, on_time_pct and avg_delivery_days without a
\* delivered order that has both dates, credit_card_share without a payment
\* of a delivered order.
C7_EmptyInputsGiveZero ==
    pc \in AfterKpis =>
        /\ DeliveredRows = {} =>
              IsZero(scalars.avg_order_value) /\ IsZero(kpis.avg_order_value)
        /\ DeliveredRows # {} =>
              /\ scalars.avg_order_value.k = "num"
              /\ scalars.avg_order_value.n * scalars.total_revenue.d
                     * Cardinality(DeliveredRows)
                 = scalars.total_revenue.n * scalars.avg_order_value.d
        /\ NoDeliveredReview =>
              /\ IsZero(scalars.avg_review) /\ IsZero(kpis.avg_review_score)
              /\ IsZero(scalars.five_star_pct) /\ IsZero(kpis.five_star_pct)
        /\ NoDatedDelivery =>
              /\ IsZero(scalars.on_time_pct) /\ IsZero(kpis.on_time_pct)
              /\ IsZero(scalars.avg_delivery_days)
              /\ IsZero(kpis.avg_delivery_days)
        /\ NoDeliveredPayment =>
              /\ IsZero(scalars.credit_card_share)
              /\ IsZero(kpis.credit_card_share)

\* orders, payments and reviews exist and none of the orders is delivered
C7_Witness ==
    /\ pc = "kpis"
    /\ orders # << >> /\ DeliveredRows = {}
    /\ payments # << >>

Position(f) == CHOOSE i \in 1..Len(FileOrder) : FileOrder[i] = f

\* C8: a run of the batch script with an input file missing ends with the
\* error naming the first missing file and leaves output/dashboard_data.json
\* as it was (absent, or the file of an earlier run); the file is written
\* only by a run that loaded the eight files and finished its aggregations,
\* and then holds the whole document.
C8_MissingFileWritesNothing ==
    /\ (pc \notin {"setup", "rendered"} /\ present # Files) =>
          /\ pc = "aborted"
          /\ err \in Files \ present
          /\ \A f \in Files \ present : Position(err) <= Position(f)
          /\ outfile \in {NoOutput, OldOutput}
    /\ pc = "aborted" => present # Files
    /\ pc \in {"loaded", "joined", "kpis", "aggregated"} => outfile.origin # "run"
    /\ outfile.origin = "run" =>
          /\ pc = "done" /\ present = Files
          /\ outfile.doc = DashboardJson(Kpis(scalars), Monthly(master),
                                         Categories(master),
                                         Installments(pay_merged),
                                         Quarterly(master), cat_monthly, master)

\* a run aborted on a missing file while an earlier output file exists
C8_Witness ==
    /\ pc = "aborted"
    /\ outfile = OldOutput
    /\ err \in Files

Abs(x) == IF x < 0 THEN -x ELSE x

\* the value in tenths of a float that is a whole number of tenths
Tenths(g) == (g.n * 10) \div g.d

CardPayments(n) ==
    {i \in 1..Len(payments) :
        /\ payments[i].payment_type = "credit_card"
        /\ payments[i].payment_installments = n
        /\ DeliveredWithId(payments[i].order_id) # {}}

\* C10: the installments aggregate holds only credit-card payments of
\* delivered orders, in ascending order of instalment count, every count is
\* between 1 and 12, and every count from 1 to 12 of the input has its row.
C10_InstallmentsOneToTwelve ==
    pc \in AfterAggregate =>
        /\ \A i \in 1..Len(installments) :
              /\ installments[i].payment_installments \in 1..12
              /\ CardPayments(installments[i].payment_installments) # {}
        /\ \A i \in 1..(Len(installments) - 1) :
              installments[i].payment_installments
                  < installments[i + 1].payment_installments
        /\ \A n \in 1..12 :
              CardPayments(n) # {} =>
                  \E i \in 1..Len(installments) :
                      installments[i].payment_installments = n

\* the delivered rows of the order file with both delivery dates
DatedRows ==
    {i \in DeliveredRows :
        /\ orders[i].order_delivered_customer_date.ok
        /\ orders[i].order_estimated_delivery_date.ok}

\* a is not later than b, field by field
NotLater(a, b) ==
    LET x == <<a.y, a.m, a.d, a.h>>
        y == <<b.y, b.m, b.d, b.h>>
    IN  \/ x = y
        \/ \E k \in 1..4 : x[k] < y[k] /\ \A j \in 1..(k - 1) : x[j] = y[j]

OnTimeRows ==
    {i \in DatedRows :
        NotLater(orders[i].order_delivered_customer_date,
                 orders[i].order_estimated_delivery_date)}

\* the dated rows whose purchase timestamp parsed
PurchasedRows == {i \in DatedRows : orders[i].order_purchase_timestamp.ok}

\* k is the whole-day count of delivered-customer date minus purchase date
IsWholeDays(k, o) ==
    LET h == Hours(o.order_delivered_customer_date)
             - Hours(o.order_purchase_timestamp)
    IN  24 * k <= h /\ h < 24 * (k + 1)

\* the whole days from purchase to delivery of row i of the order file
WholeDays(i) ==
    (Hours(orders[i].order_delivered_customer_date)
        - Hours(orders[i].order_purchase_timestamp)) \div 24

RECURSIVE SumOver(_, _)
SumOver(S, f) ==
    IF S = {} THEN 0
    ELSE LET x == CHOOSE y \in S : TRUE IN f[x] + SumOver(S \ {x}, f)

DaysTotal == SumOver(PurchasedRows, [i \in PurchasedRows |-> WholeDays(i)])

\* x is the number of tenths nearest to the float s
NearestTenths(x, s) ==
    /\ x.k = "num" /\ s.k = "num"
    /\ (x.n * 10) % x.d = 0
    /\ 2 * Abs(Tenths(x) * s.d - 10 * s.n) <= s.d

\* the on-time percentage is 100 * on-time rows / dated rows
OnTimeShare(sc, k) ==
    DatedRows # {} =>
        /\ sc.on_time_pct.k = "num"
        /\ sc.on_time_pct.n * Cardinality(DatedRows)
              = 100 * Cardinality(OnTimeRows) * sc.on_time_pct.d
        /\ NearestTenths(k.on_time_pct, sc.on_time_pct)

\* the rows of a del_data table are the dated rows, in file order, each
\* with its on_time flag and its whole-day delivery_days
DelDataRows(dd) ==
    /\ Len(dd) = Cardinality(DatedRows)
    /\ \A j \in 1..Len(dd) :
          /\ dd[j].order_status = "delivered"
          /\ ~dd[j].order_delivered_customer_date.nat
          /\ ~dd[j].order_estimated_delivery_date.nat
          /\ dd[j].on_time
                <=> NotLater(dd[j].order_delivered_customer_date,
                             dd[j].order_estimated_delivery_date)
          /\ IF dd[j].order_purchase_timestamp.nat
             THEN IsNaN(dd[j].delivery_days)
             ELSE /\ dd[j].delivery_days.k = "num"
                  /\ dd[j].delivery_days.d = 1
                  /\ IsWholeDays(dd[j].delivery_days.n, dd[j])

\* C11 as stated: avg_delivery_days is the mean of the whole-day differences
\* taken over every delivered row that has both delivery dates, as
\* on_time_pct is.
C11_AveragedOverDatedRows ==
    pc \in AfterKpis =>
        /\ OnTimeShare(scalars, kpis)
        /\ DatedRows # {} =>
              /\ scalars.avg_delivery_days.k = "num"
              /\ scalars.avg_delivery_days.n * Cardinality(DatedRows)
                    = DaysTotal * scalars.avg_delivery_days.d

\* C11 amended: on_time_pct is the percentage, among the delivered rows that
\* have both a delivered-customer and an estimated-delivery date, of the rows
\* whose delivered-customer date is not later than the estimated date;
\* delivery_days is the whole-day difference between delivered-customer date
\* and purchase date and is missing for a row whose purchase timestamp did
\* not parse; avg_delivery_days is the mean of delivery_days over those of
\* the rows that have it, and is not a number when there are such rows and
\* none has it.  Rows that lack either date or are not delivered count in
\* neither KPI.  The dashboard's del_data holds the same rows.
C11_DeliveryKpis ==
    /\ pc \in AfterKpis =>
          /\ OnTimeShare(scalars, kpis)
          /\ PurchasedRows # {} =>
                /\ scalars.avg_delivery_days.k = "num"
                /\ scalars.avg_delivery_days.n * Cardinality(PurchasedRows)
                      = DaysTotal * scalars.avg_delivery_days.d
                /\ NearestTenths(kpis.avg_delivery_days,
                                 scalars.avg_delivery_days)
          /\ (DatedRows # {} /\ PurchasedRows = {}) =>
                IsNaN(scalars.avg_delivery_days) /\ IsNaN(kpis.avg_delivery_days)
    /\ cache.ok => DelDataRows(cache.del_data)

\* a dated row, a dated row with an unparsable purchase timestamp and a
\* delivered row that lacks a date
C11_Witness ==
    /\ pc = "kpis"
    /\ PurchasedRows # {} /\ PurchasedRows # DatedRows
    /\ DatedRows # DeliveredRows

\* a run of the script has ended
Ended == pc \in {"done", "aborted"}

SameFloat(x, y) == (IsNaN(x) /\ IsNaN(y)) \/ FEq(x, y)

\* the cards show the values of the batch script's KPIs
CardsAgree ==
    /\ cards.shown
    /\ SameFloat(cards.total_rev, scalars.total_revenue)
    /\ cards.total_orders = kpis.total_orders
    /\ SameFloat(cards.avg_order_value, kpis.avg_order_value)
    /\ cards.unique_customers = kpis.total_customers
    /\ SameFloat(cards.avg_review, kpis.avg_review_score)
    /\ SameFloat(cards.five_star, kpis.five_star_pct)
    /\ SameFloat(cards.on_time, kpis.on_time_pct)
    /\ SameFloat(cards.avg_delivery, kpis.avg_delivery_days)
    /\ SameFloat(cards.credit_card_share, kpis.credit_card_share)

\* C13: the dashboard opened on the files the batch script has just
\* processed shows, on its KPI cards, the values the batch script computed:
\* total revenue, total orders, average order value, unique customers,
\* average review score, five-star percentage, on-time percentage, average
\* delivery days and credit-card share, also when there is no delivered
\* order, no review or no payment of a delivered order.
C13_CardsEqualBatchKpis ==
    [][(pc = "done" /\ pc' = "rendered") => CardsAgree']_vars

\* what load_data computes from the files as they are now
Fresh ==
    LoadDataResult(present, orders, items, payments, reviews, customers,
                   products, translations, build)

\* C14: the tables a run of the dashboard script works with are those of
\* the input files as they are at that run: the result cached by an earlier
\* run of the session is reused while the files are unchanged, and a run
\* after the files changed (a row added, a missing file supplied or a file
\* removed) shows neither the tables nor the failure cached before.
C14_RenderShowsCurrentFiles ==
    pc = "rendered" =>
        /\ cache.filled
        /\ cache = Fresh
        /\ cards = Cards(Fresh)

\* no two rows of df have the same value of column c
Unique(df, c) ==
    \A i, j \in 1..Len(df) : df[i][c] = df[j][c] => i = j

\* the keys are unique in their tables
UniqueKeys ==
    /\ Unique(orders, "order_id")
    /\ Unique(products, "product_id")
    /\ Unique(translations, "product_category_name")
    /\ Unique(customers, "customer_id")
    /\ Unique(sellers, "seller_id")

\* the rows of the item file whose order is delivered and in the window
KeptItems ==
    {i \in 1..Len(items) :
        \E j \in DeliveredWithId(items[i].order_id) : MonthInWindow(Purchase(j))}

\* the master rows of order id that carry price p
MasterRowsOf(id, p) ==
    {j \in 1..Len(master) : master[j].order_id = id /\ master[j].price = p}

\* C15: with order_id, product_id, the local category name, customer_id and
\* seller_id unique in their tables, every item row of a delivered order of
\* the window is exactly one row of the master table (the left joins add no
\* row), so the revenue of the monthly aggregate sums to the prices of those
\* items, its freight to their freight values, and the total of every month
\* is its revenue plus its freight.
C15_OneMasterRowPerItem ==
    UniqueKeys =>
        /\ pc \in AfterJoin =>
              /\ Len(master) = Cardinality(KeptItems)
              /\ \A id \in OrderIds, p \in Prices :
                    Cardinality(MasterRowsOf(id, p))
                        = Cardinality({i \in KeptItems :
                              items[i].order_id = id /\ items[i].price = p})
        /\ pc \in AfterAggregate =>
              /\ FEq(FSum(Column(monthly, "revenue")),
                     Num(SumOver(KeptItems,
                                 [i \in KeptItems |-> items[i].price])))
              /\ FEq(FSum(Column(monthly, "freight")),
                     Num(SumOver(KeptItems,
                                 [i \in KeptItems |-> items[i].freight_value])))
              /\ \A g \in 1..Len(monthly) :
                    FEq(monthly[g].total,
                        FAdd(monthly[g].revenue, monthly[g].freight))

\* an item of a delivered order of the window that was paid in two rows
C15_Witness ==
    /\ pc = "aggregated"
    /\ UniqueKeys
    /\ Len(master) >= 1
    /\ \E id \in OrderIds : Len(PaymentsOf(id)) = 2 /\ MasterRowsOf(id, 3) # {}

=============================================================================
